---- MODULE Spec2Model ----
(***************************************************************************)
(* Model of the incremental wiki build of src/src/lib.rs: discovery        *)
(* (read_from_directory), the per-document loop with the content-hash      *)
(* ledger and the output-path derivation (read_content_from_current_paths, *)
(* check_hash_currency, read_file_hash, get_file_hash, write_file_hash)    *)
(* and the fallback index (create_index_tree).                             *)
(*                                                                         *)
(* A string is a sequence of one-character strings, so that replace,       *)
(* split and lines are computed as the code computes them.  A file is a    *)
(* sequence of strings; a directory tree is a function from the paths of   *)
(* the files that exist to their contents.                                 *)
(***************************************************************************)
EXTENDS Integers, Sequences, FiniteSets, TLC

VARIABLES
    input_paths,   \* Wiki.input_paths: sequence of [path, hash]
    output_paths,  \* Wiki.output_paths: sequence of relative output paths
    pc,            \* position of the calling program
    idx,           \* index of the for loop of read_content_from_current_paths
    err,           \* result of the last library call: "" while running, "ok", or the error
    rootExists,    \* the input root is a directory
    src,           \* source tree: document path -> content, for the files that exist
    outDirExists,  \* the output directory exists
    out,           \* output directory: relative path -> file content
    runs,          \* number of read_from_directory calls so far
    edits,         \* number of changes made from outside the program so far
    rendered,      \* documents that took the stale branch in this run
    written,       \* output paths written by File::create in this run
    ledgerLog,     \* operations this run's program performed on the ledger file
    outOf,         \* document -> output path derived for it in this run
    failedAt,      \* loop index of the document whose processing failed, 0 if none
    ledgerMap,     \* the mapping path -> hash that the ledger on disk is meant to hold
    start,         \* the trees as they were when this run started
    base,          \* the trees as the previous run left them
    endSnap,       \* the trees as the last program step after a run left them
    quiet,         \* nothing outside the program changed the trees during this run
    lastIndex,     \* the last create_index_tree call: what it found and what it left
    lookup         \* the last read_file_hash lookup of the ledger round-trip

vars == <<input_paths, output_paths, pc, idx, err, rootExists, src, outDirExists,
          out, runs, edits, rendered, written, ledgerLog, outOf, failedAt,
          ledgerMap, start, base, endSnap, quiet, lastIndex, lookup>>

----------------------------------------------------------------------------
(* Bounds of the model *)

MaxRuns == 2
MaxEdits == 1
MaxEntries == 2

----------------------------------------------------------------------------
(* Strings *)

RECURSIVE Concat(_)
Concat(ss) == IF ss = <<>> THEN <<>> ELSE Head(ss) \o Concat(Tail(ss))

\* The first index of character c in s, 0 if there is none.
IndexOf(s, c) ==
    IF \E i \in 1..Len(s) : s[i] = c
    THEN CHOOSE i \in 1..Len(s) : s[i] = c /\ \A j \in 1..(i - 1) : s[j] # c
    ELSE 0

\* str::replace: every non-overlapping match of pat, left to right.
RECURSIVE Replace(_, _, _)
Replace(s, pat, rep) ==
    IF Len(s) < Len(pat) THEN s
    ELSE IF SubSeq(s, 1, Len(pat)) = pat
         THEN rep \o Replace(SubSeq(s, Len(pat) + 1, Len(s)), pat, rep)
         ELSE <<Head(s)>> \o Replace(Tail(s), pat, rep)

\* str::split(c): the pieces between the occurrences of c; one piece if there is none.
RECURSIVE Split(_, _)
Split(s, c) ==
    LET i == IndexOf(s, c)
    IN  IF i = 0 THEN <<s>>
        ELSE <<SubSeq(s, 1, i - 1)>> \o Split(SubSeq(s, i + 1, Len(s)), c)

\* BufRead::lines: the pieces ended by a line feed, each without the carriage
\* return that may precede its line feed, and a last piece when it is not empty.
RECURSIVE Lines(_)
Lines(s) ==
    LET i == IndexOf(s, "\n")
        cr == IF i > 1 /\ s[i - 1] = "\r" THEN 1 ELSE 0
    IN  IF s = <<>> THEN <<>>
        ELSE IF i = 0 THEN <<s>>
        ELSE <<SubSeq(s, 1, i - 1 - cr)>> \o Lines(SubSeq(s, i + 1, Len(s)))

EndsWith(s, suf) ==
    Len(s) >= Len(suf) /\ SubSeq(s, Len(s) - Len(suf) + 1, Len(s)) = suf

\* The last index of character c in s, 0 if there is none.
LastIndexOf(s, c) ==
    IF \E i \in 1..Len(s) : s[i] = c
    THEN CHOOSE i \in 1..Len(s) : s[i] = c /\ \A j \in (i + 1)..Len(s) : s[j] # c
    ELSE 0

----------------------------------------------------------------------------
(* The files of the model *)

SHA_FILE == <<".", "f", "i", "l", "e", "s", ".", "s", "h", "a">>
INDEX_HTML == <<"i", "n", "d", "e", "x", ".", "h", "t", "m", "l">>
MAIN_SEPARATOR == "/"
MdExt == <<".", "m", "d">>
HtmlExt == <<".", "h", "t", "m", "l">>

\* The input root given to the program, relative to the working directory.
Root == <<"r">>
Cwd == <<"/">>

\* The documents that may exist under the root: r/b/a.md, r/d/r/c.md, r/index.md,
\* and r/dc.md in the builds of the path mapping.
DocA == <<"r", "/", "b", "/", "a", ".", "m", "d">>
DocC == <<"r", "/", "d", "/", "r", "/", "c", ".", "m", "d">>
DocD == <<"r", "/", "d", "c", ".", "m", "d">>
DocI == <<"r", "/", "i", "n", "d", "e", "x", ".", "m", "d">>

\* The order in which glob yields them.
DocSeq == <<DocA, DocC, DocD, DocI>>
Docs == {DocA, DocC, DocI}

\* A file whose bytes are not UTF-8: File::open succeeds, read_to_string fails.
NotUtf8 == "bad"
Texts == {"c1", "c2"}

EmptyDir == [p \in {} |-> <<>>]

Remove(dir, p) == [q \in (DOMAIN dir) \ {p} |-> dir[q]]

Put(dir, p, data) == [q \in (DOMAIN dir) \cup {p} |-> IF q = p THEN data ELSE dir[q]]

----------------------------------------------------------------------------
(* External collaborators *)

\* sha_1: the digest of a text (two bytes stand for the twenty).
Sha1(text) == IF text = "c1" THEN <<10, 255>> ELSE <<171, 5>>

\* markdown::to_html
ToHtml(text) == <<"<p>", text, "</p>">>

\* glob(directory/**/*.md): the matching paths that exist, in glob's order.
Glob(tree) == SelectSeq(DocSeq, LAMBDA d : d \in DOMAIN tree)

\* fs::canonicalize: the absolute path; an error when the file does not exist.
Canonicalize(exists, p) ==
    IF exists THEN [ok |-> TRUE, val |-> Cwd \o p] ELSE [ok |-> FALSE, val |-> <<"io">>]

\* Path::parent: None for the empty path and for a path that ends in the root.
Parent(p) ==
    IF p = <<>> \/ p = <<MAIN_SEPARATOR>> THEN [ok |-> FALSE, val |-> <<>>]
    ELSE [ok |-> TRUE, val |-> SubSeq(p, 1, LastIndexOf(p, MAIN_SEPARATOR) - 1)]

\* Path::file_name: the last component.
FileName(p) == SubSeq(p, LastIndexOf(p, MAIN_SEPARATOR) + 1, Len(p))

----------------------------------------------------------------------------
(* The pure functions of lib.rs *)

HexDigits == <<"0", "1", "2", "3", "4", "5", "6", "7",
               "8", "9", "a", "b", "c", "d", "e", "f">>

\* format!("{:x}", hash_byte): lower-case hexadecimal, no padding.
FormatHex(byte) ==
    IF byte < 16 THEN <<HexDigits[byte + 1]>>
    ELSE <<HexDigits[(byte \div 16) + 1], HexDigits[(byte % 16) + 1]>>

\* The loop of get_file_hash over the digest's bytes.
HashStr(digest) == Concat([i \in DOMAIN digest |-> FormatHex(digest[i])])

\* Wiki::get_file_hash
GetFileHash(tree, file_str) ==
    IF file_str \notin DOMAIN tree \/ tree[file_str] = NotUtf8
    THEN [ok |-> FALSE, val |-> <<"io">>]
    ELSE [ok |-> TRUE, val |-> HashStr(Sha1(tree[file_str]))]

\* The for loop of read_file_hash over the lines of the hash file.
RECURSIVE ScanLines(_, _)
ScanLines(lines, file_str) ==
    IF lines = <<>> THEN [tag |-> "None", val |-> <<>>]
    ELSE LET sha_args == Split(Head(lines), ":")
         IN  IF Len(sha_args) < 2 THEN [tag |-> "Panic", val |-> <<>>]
             ELSE IF sha_args[2] = file_str THEN [tag |-> "Some", val |-> sha_args[1]]
             ELSE ScanLines(Tail(lines), file_str)

\* read_file_hash that unwraps the result of File::open.
ReadFileHashUnwrap(dir, hash_file_str, file_str) ==
    IF hash_file_str \notin DOMAIN dir THEN [tag |-> "Panic", val |-> <<>>]
    ELSE ScanLines(Lines(dir[hash_file_str]), file_str)

\* read_file_hash that takes the first line's hash without comparing the path.
ReadFileHashAnyLine(dir, hash_file_str, file_str) ==
    IF hash_file_str \notin DOMAIN dir \/ Lines(dir[hash_file_str]) = <<>>
    THEN [tag |-> "None", val |-> <<>>]
    ELSE [tag |-> "Some", val |-> Split(Lines(dir[hash_file_str])[1], ":")[1]]

\* Wiki::read_file_hash
ReadFileHash(dir, hash_file_str, file_str) ==
    IF hash_file_str \notin DOMAIN dir THEN [tag |-> "None", val |-> <<>>]
    ELSE ScanLines(Lines(dir[hash_file_str]), file_str)

\* write_file_hash that writes the fields of a line in the other order.
HashFileContentSwapped(paths) ==
    Concat([i \in DOMAIN paths |->
              paths[i].path \o <<":">> \o paths[i].hash \o <<"\n">>])

\* The string write_file_hash builds: one line <hash>:<file> per input path.
HashFileContent(paths) ==
    Concat([i \in DOMAIN paths |->
              paths[i].hash \o <<":">> \o paths[i].path \o <<"\n">>])

\* check_hash_currency that finds a document up to date only when its output
\* file exists.
CheckHashCurrencyNeedsOutput(dir, tree, hash_file_str, file_str) ==
    LET current_file_hash == GetFileHash(tree, file_str)
        stored == ReadFileHash(dir, hash_file_str, file_str)
        output_str == Replace(Replace(Cwd \o file_str,
                                      Cwd \o Root \o <<MAIN_SEPARATOR>>, <<>>),
                              MdExt, HtmlExt)
    IN  IF ~current_file_hash.ok THEN [tag |-> "Io", val |-> current_file_hash.val]
        ELSE IF stored.tag = "Panic" THEN [tag |-> "Panic", val |-> <<>>]
        ELSE IF /\ stored.tag = "Some"
                /\ current_file_hash.val = stored.val
                /\ output_str \in DOMAIN dir
             THEN [tag |-> "Ok", val |-> current_file_hash.val]
        ELSE [tag |-> "Err", val |-> current_file_hash.val]

\* check_hash_currency that never finds a document up to date.
CheckHashCurrencyNeverOk(dir, tree, hash_file_str, file_str) ==
    LET current_file_hash == GetFileHash(tree, file_str)
    IN  IF ~current_file_hash.ok THEN [tag |-> "Io", val |-> current_file_hash.val]
        ELSE [tag |-> "Err", val |-> current_file_hash.val]

\* Wiki::check_hash_currency: "Ok" (up to date), "Err" carrying the new hash,
\* "Io" when the file cannot be hashed, "Panic" when read_file_hash panics.
CheckHashCurrency(dir, tree, hash_file_str, file_str) ==
    LET current_file_hash == GetFileHash(tree, file_str)
        stored == ReadFileHash(dir, hash_file_str, file_str)
    IN  IF ~current_file_hash.ok THEN [tag |-> "Io", val |-> current_file_hash.val]
        ELSE IF stored.tag = "Panic" THEN [tag |-> "Panic", val |-> <<>>]
        ELSE IF stored.tag = "Some" /\ current_file_hash.val = stored.val
             THEN [tag |-> "Ok", val |-> current_file_hash.val]
        ELSE [tag |-> "Err", val |-> current_file_hash.val]

\* The output path read_content_from_current_paths derives for a document.
OutputStr(file_str_n, input_root_str_n) ==
    Replace(Replace(file_str_n, input_root_str_n \o <<MAIN_SEPARATOR>>, <<>>),
            MdExt, HtmlExt)

\* One list item of the index.
IndexItem(output_path) ==
    <<"<li><a href=\"">> \o output_path \o <<"\">">> \o FileName(output_path)
        \o <<"</a></li>\n">>

\* The string create_index_tree builds.
IndexStr(paths) ==
    <<"index.template.html">> \o Concat([i \in DOMAIN paths |-> IndexItem(paths[i])])

----------------------------------------------------------------------------
(* Bookkeeping of the runs *)

\* out: the output directory as the last program step left it; built: as the
\* last read_content_from_current_paths left it.
Snap == [valid |-> TRUE, ok |-> TRUE, quiet |-> TRUE, root |-> rootExists,
         src |-> src, dirEx |-> outDirExists, out |-> out, built |-> out]

NoSnap == [valid |-> FALSE, ok |-> FALSE, quiet |-> TRUE, root |-> FALSE,
           src |-> EmptyDir, dirEx |-> FALSE, out |-> EmptyDir, built |-> EmptyDir]

EndRec(okv, q, dirv, outv) ==
    [valid |-> TRUE, ok |-> okv, quiet |-> q, root |-> rootExists, src |-> src,
     dirEx |-> dirv, out |-> outv, built |-> outv]

NoIndexCall == [valid |-> FALSE, existed |-> FALSE, before |-> EmptyDir,
                after |-> EmptyDir, paths |-> <<>>]

NoLookup == [done |-> FALSE, path |-> <<>>, res |-> [tag |-> "None", val |-> <<>>]]

\* The program is inside read_from_directory .. read_content_from_current_paths.
Running == pc \in {"scanned", "loop", "render", "wfh_create", "wfh_write"}

\* The mapping a sequence of input paths stands for.
MapOf(paths) ==
    [p \in {paths[i].path : i \in DOMAIN paths} |->
        (CHOOSE e \in {paths[i] : i \in DOMAIN paths} : e.path = p).hash]

----------------------------------------------------------------------------
(* The program *)

\* Wiki::new
NewWiki ==
    /\ pc \in {"built", "done", "failed"}
    /\ runs < MaxRuns
    /\ pc' = "idle"
    /\ input_paths' = <<>>
    /\ output_paths' = <<>>
    /\ err' = ""
    /\ UNCHANGED <<idx, rootExists, src, outDirExists, out, runs, edits, rendered,
                   written, ledgerLog, outOf, failedAt, ledgerMap, start, base,
                   endSnap, quiet, lastIndex, lookup>>

\* read_from_directory without the is_dir test: glob finds nothing under a
\* root that does not exist.
ReadFromDirectoryNoDirCheck ==
    /\ pc \in {"idle", "built", "done", "failed"}
    /\ runs < MaxRuns
    /\ runs' = runs + 1
    /\ base' = endSnap
    /\ start' = Snap
    /\ quiet' = TRUE
    /\ rendered' = {}
    /\ written' = {}
    /\ ledgerLog' = <<>>
    /\ outOf' = EmptyDir
    /\ failedAt' = 0
    /\ idx' = 0
    /\ input_paths' = [i \in DOMAIN Glob(src) |-> [path |-> Glob(src)[i], hash |-> <<>>]]
    /\ pc' = "scanned"
    /\ err' = ""
    /\ lastIndex' = NoIndexCall
    /\ UNCHANGED <<output_paths, rootExists, src, outDirExists, out, edits,
                   ledgerMap, lookup, endSnap>>

\* read_from_directory without self.input_paths.clear().
ReadFromDirectoryNoClear ==
    /\ pc \in {"idle", "built", "done", "failed"}
    /\ runs < MaxRuns
    /\ runs' = runs + 1
    /\ base' = endSnap
    /\ start' = Snap
    /\ quiet' = TRUE
    /\ rendered' = {}
    /\ written' = {}
    /\ ledgerLog' = <<>>
    /\ outOf' = EmptyDir
    /\ failedAt' = 0
    /\ idx' = 0
    /\ IF ~rootExists
       THEN /\ input_paths' = <<>>
            /\ pc' = "failed"
            /\ err' = "NotADirectory"
            /\ endSnap' = EndRec(FALSE, TRUE, outDirExists, out)
       ELSE /\ input_paths' = input_paths \o
                                  [i \in DOMAIN Glob(src) |->
                                     [path |-> Glob(src)[i], hash |-> <<>>]]
            /\ pc' = "scanned"
            /\ err' = ""
            /\ UNCHANGED endSnap
    /\ lastIndex' = NoIndexCall
    /\ UNCHANGED <<output_paths, rootExists, src, outDirExists, out, edits,
                   ledgerMap, lookup>>

\* Wiki::read_from_directory(Root)
ReadFromDirectory ==
    /\ pc \in {"idle", "built", "done", "failed"}
    /\ runs < MaxRuns
    /\ runs' = runs + 1
    /\ base' = endSnap
    /\ start' = Snap
    /\ quiet' = TRUE
    /\ rendered' = {}
    /\ written' = {}
    /\ ledgerLog' = <<>>
    /\ outOf' = EmptyDir
    /\ failedAt' = 0
    /\ idx' = 0
    /\ IF ~rootExists
       THEN /\ input_paths' = <<>>
            /\ pc' = "failed"
            /\ err' = "NotADirectory"
            /\ endSnap' = EndRec(FALSE, TRUE, outDirExists, out)
       ELSE /\ input_paths' = [i \in DOMAIN Glob(src) |->
                                  [path |-> Glob(src)[i], hash |-> <<>>]]
            /\ pc' = "scanned"
            /\ err' = ""
            /\ UNCHANGED endSnap
    /\ lastIndex' = NoIndexCall
    /\ UNCHANGED <<output_paths, rootExists, src, outDirExists, out, edits,
                   ledgerMap, lookup>>

\* read_content_from_current_paths, up to the for loop: the output directory.
BeginReadContent ==
    /\ pc = "scanned"
    /\ pc' = "loop"
    /\ idx' = 1
    /\ outDirExists' = TRUE
    /\ UNCHANGED <<input_paths, output_paths, err, rootExists, src, out, runs, edits,
                   rendered, written, ledgerLog, outOf, failedAt, ledgerMap, start,
                   base, endSnap, quiet, lastIndex, lookup>>

\* A failure in the loop body that saves the hashes assigned so far on its way out.
FailDocSavingLedger(e) ==
    /\ pc' = "failed"
    /\ err' = e
    /\ failedAt' = idx
    /\ out' = Put(out, SHA_FILE, HashFileContent(input_paths))
    /\ endSnap' = EndRec(FALSE, quiet, outDirExists, out')
    /\ UNCHANGED <<input_paths, output_paths, idx, rendered, written, outOf>>

\* The `?` and bail! of the loop body: the call returns the error.
FailDoc(e) ==
    /\ pc' = "failed"
    /\ err' = e
    /\ failedAt' = idx
    /\ endSnap' = EndRec(FALSE, quiet, outDirExists, out)
    /\ UNCHANGED <<input_paths, output_paths, idx, out, rendered, written, outOf>>

\* One iteration of the for loop of read_content_from_current_paths: all of it
\* when the document is up to date, up to file.hash = hash.to_string() when not.
ProcessDoc ==
    /\ pc = "loop"
    /\ idx <= Len(input_paths)
    /\ LET file_str == input_paths[idx].path
           readable == file_str \in DOMAIN src /\ src[file_str] # NotUtf8
           file_buf_n == Canonicalize(file_str \in DOMAIN src, file_str)
           input_root_buf_n == Canonicalize(rootExists, Root)
           output_str == OutputStr(file_buf_n.val, input_root_buf_n.val)
           check == CheckHashCurrency(out, src, SHA_FILE, file_str)
       IN  IF ~readable \/ ~file_buf_n.ok \/ ~input_root_buf_n.ok
           THEN FailDoc("io")
           ELSE IF ~Parent(output_str).ok
           THEN FailDoc("Can't get output path parent.")
           ELSE IF check.tag = "Panic"
           THEN FailDoc("panic")
           ELSE /\ input_paths' = [input_paths EXCEPT ![idx].hash = check.val]
                /\ IF check.tag = "Ok"
                   THEN /\ output_paths' = Append(output_paths, output_str)
                        /\ outOf' = Put(outOf, file_str, output_str)
                        /\ idx' = idx + 1
                        /\ UNCHANGED <<pc, rendered>>
                   ELSE /\ rendered' = rendered \cup {file_str}
                        /\ pc' = "render"
                        /\ UNCHANGED <<output_paths, outOf, idx>>
                /\ UNCHANGED <<out, written, err, failedAt, endSnap>>
    /\ UNCHANGED <<rootExists, src, outDirExists, runs, edits, ledgerLog, ledgerMap,
                   start, base, quiet, lastIndex, lookup>>

\* The rest of the iteration for a document that is not up to date: File::create
\* and write of the rendering, and the push of the output path.
WriteOutput ==
    /\ pc = "render"
    /\ LET file_str == input_paths[idx].path
           output_str == OutputStr(Canonicalize(TRUE, file_str).val,
                                   Canonicalize(TRUE, Root).val)
       IN  /\ out' = Put(out, output_str, ToHtml(src[file_str]))
           /\ written' = written \cup {output_str}
           /\ output_paths' = Append(output_paths, output_str)
           /\ outOf' = Put(outOf, file_str, output_str)
    /\ idx' = idx + 1
    /\ pc' = "loop"
    /\ UNCHANGED <<input_paths, err, rootExists, src, outDirExists, runs, edits,
                   rendered, ledgerLog, failedAt, ledgerMap, start, base, endSnap,
                   quiet, lastIndex, lookup>>

\* write_file_hash: fs::remove_file when the hash file exists.
WfhRemove ==
    /\ pc = "loop"
    /\ idx > Len(input_paths)
    /\ pc' = "wfh_create"
    /\ IF SHA_FILE \in DOMAIN out
       THEN /\ out' = Remove(out, SHA_FILE)
            /\ ledgerLog' = Append(ledgerLog, "remove")
            /\ ledgerMap' = EmptyDir
       ELSE UNCHANGED <<out, ledgerLog, ledgerMap>>
    /\ UNCHANGED <<input_paths, output_paths, idx, err, rootExists, src, outDirExists,
                   runs, edits, rendered, written, outOf, failedAt, start, base,
                   endSnap, quiet, lastIndex, lookup>>

\* write_file_hash: File::create.
WfhCreate ==
    /\ pc = "wfh_create"
    /\ pc' = "wfh_write"
    /\ out' = Put(out, SHA_FILE, <<>>)
    /\ ledgerLog' = Append(ledgerLog, "create")
    /\ ledgerMap' = EmptyDir
    /\ UNCHANGED <<input_paths, output_paths, idx, err, rootExists, src, outDirExists,
                   runs, edits, rendered, written, outOf, failedAt, start, base,
                   endSnap, quiet, lastIndex, lookup>>

\* write_file_hash: write_all, and the return of read_content_from_current_paths.
WfhWrite ==
    /\ pc = "wfh_write"
    /\ pc' = "built"
    /\ err' = "ok"
    /\ out' = Put(out, SHA_FILE, HashFileContent(input_paths))
    /\ ledgerLog' = Append(ledgerLog, "write")
    /\ ledgerMap' = MapOf(input_paths)
    /\ endSnap' = EndRec(TRUE, quiet, outDirExists, out')
    /\ UNCHANGED <<input_paths, output_paths, idx, rootExists, src, outDirExists,
                   runs, edits, rendered, written, outOf, failedAt, start, base,
                   quiet, lastIndex, lookup>>

\* create_index_tree without the test that index.html exists.
CreateIndexTreeAlways ==
    /\ pc \in {"built", "done"}
    /\ pc' = "done"
    /\ out' = Put(out, INDEX_HTML, IndexStr(output_paths))
    /\ endSnap' = [endSnap EXCEPT
                     !.out = Put(endSnap.out, INDEX_HTML, IndexStr(output_paths))]
    /\ lastIndex' = [valid |-> TRUE, existed |-> INDEX_HTML \in DOMAIN out,
                     before |-> out, after |-> out', paths |-> output_paths]
    /\ UNCHANGED <<input_paths, output_paths, idx, err, rootExists, src, outDirExists,
                   runs, edits, rendered, written, ledgerLog, outOf, failedAt,
                   ledgerMap, start, base, quiet, lookup>>

\* Wiki::create_index_tree
CreateIndexTree ==
    /\ pc \in {"built", "done"}
    /\ pc' = "done"
    /\ IF INDEX_HTML \in DOMAIN out
       THEN UNCHANGED <<out, endSnap>>
       ELSE /\ out' = Put(out, INDEX_HTML, IndexStr(output_paths))
            /\ endSnap' = [endSnap EXCEPT
                             !.out = Put(endSnap.out, INDEX_HTML, IndexStr(output_paths))]
    /\ lastIndex' = [valid |-> TRUE, existed |-> INDEX_HTML \in DOMAIN out,
                     before |-> out, after |-> out', paths |-> output_paths]
    /\ UNCHANGED <<input_paths, output_paths, idx, err, rootExists, src, outDirExists,
                   runs, edits, rendered, written, ledgerLog, outOf, failedAt,
                   ledgerMap, start, base, quiet, lookup>>

----------------------------------------------------------------------------
(* The environment: changes to the trees from outside the program *)

\* Changes are interleaved with the loop and made between the runs.
EnvMayAct ==
    /\ edits < MaxEdits
    /\ (pc \in {"done", "failed"} \/ (pc = "loop" /\ idx = 1))

EnvFrame ==
    /\ edits' = edits + 1
    /\ quiet' = IF Running THEN FALSE ELSE quiet
    /\ UNCHANGED <<input_paths, output_paths, pc, idx, err, outDirExists, runs,
                   rendered, written, ledgerLog, outOf, failedAt, start, base,
                   endSnap, lastIndex, lookup>>

\* A document is created, or its content replaced.
EnvWriteDoc(d, text) ==
    /\ EnvMayAct
    /\ rootExists
    /\ (IF d \in DOMAIN src THEN src[d] ELSE "") # text
    /\ src' = Put(src, d, text)
    /\ EnvFrame
    /\ UNCHANGED <<rootExists, out, ledgerMap>>

\* A document is deleted.
EnvDeleteDoc(d) ==
    /\ EnvMayAct
    /\ d \in DOMAIN src
    /\ src' = Remove(src, d)
    /\ EnvFrame
    /\ UNCHANGED <<rootExists, out, ledgerMap>>

\* The input root is removed with everything under it.
EnvRemoveRoot ==
    /\ EnvMayAct
    /\ rootExists
    /\ rootExists' = FALSE
    /\ src' = EmptyDir
    /\ EnvFrame
    /\ UNCHANGED <<out, ledgerMap>>

\* A file of the output directory is deleted.
EnvDeleteOut(p) ==
    /\ EnvMayAct
    /\ p \in DOMAIN out
    /\ out' = Remove(out, p)
    /\ ledgerMap' = IF p = SHA_FILE THEN EmptyDir ELSE ledgerMap
    /\ EnvFrame
    /\ UNCHANGED <<rootExists, src>>

----------------------------------------------------------------------------
(* The build *)

\* The source trees a build may start from: any of the documents, each with the
\* same text, the second possibly not UTF-8.
InitTrees ==
    {t \in UNION {[D -> {"c1", NotUtf8}] : D \in SUBSET Docs} :
        \A d \in DOMAIN t : t[d] = NotUtf8 => d = DocC}

Init ==
    /\ input_paths = <<>>
    /\ output_paths = <<>>
    /\ pc = "idle"
    /\ idx = 0
    /\ err = ""
    /\ rootExists \in BOOLEAN
    /\ src \in IF rootExists THEN InitTrees ELSE {EmptyDir}
    /\ outDirExists = FALSE
    /\ out = EmptyDir
    /\ runs = 0
    /\ edits = 0
    /\ rendered = {}
    /\ written = {}
    /\ ledgerLog = <<>>
    /\ outOf = EmptyDir
    /\ failedAt = 0
    /\ ledgerMap = EmptyDir
    /\ start = NoSnap
    /\ base = NoSnap
    /\ endSnap = NoSnap
    /\ quiet = TRUE
    /\ lastIndex = NoIndexCall
    /\ lookup = NoLookup

Next ==
    \/ NewWiki
    \/ ReadFromDirectory
    \/ BeginReadContent
    \/ ProcessDoc
    \/ WriteOutput
    \/ WfhRemove
    \/ WfhCreate
    \/ WfhWrite
    \/ CreateIndexTree
    \/ \E d \in Docs, text \in Texts \cup {NotUtf8} : EnvWriteDoc(d, text)
    \/ \E d \in Docs : EnvDeleteDoc(d)
    \/ EnvRemoveRoot
    \/ \E p \in DOMAIN out : EnvDeleteOut(p)

Spec == Init /\ [][Next]_vars

----------------------------------------------------------------------------
(* The builds of the path mapping: trees that hold r/dc.md, left alone *)

PathTrees == {[D \cup {DocD} -> {"c1"}] : D \in SUBSET Docs}

InitPaths ==
    /\ input_paths = <<>>
    /\ output_paths = <<>>
    /\ pc = "idle"
    /\ idx = 0
    /\ err = ""
    /\ rootExists = TRUE
    /\ src \in UNION PathTrees
    /\ outDirExists = FALSE
    /\ out = EmptyDir
    /\ runs = 0
    /\ edits = 0
    /\ rendered = {}
    /\ written = {}
    /\ ledgerLog = <<>>
    /\ outOf = EmptyDir
    /\ failedAt = 0
    /\ ledgerMap = EmptyDir
    /\ start = NoSnap
    /\ base = NoSnap
    /\ endSnap = NoSnap
    /\ quiet = TRUE
    /\ lastIndex = NoIndexCall
    /\ lookup = NoLookup

NextPaths ==
    \/ NewWiki
    \/ ReadFromDirectory
    \/ BeginReadContent
    \/ ProcessDoc
    \/ WriteOutput
    \/ WfhRemove
    \/ WfhCreate
    \/ WfhWrite
    \/ CreateIndexTree

SpecPaths == InitPaths /\ [][NextPaths]_vars

----------------------------------------------------------------------------
(* The ledger round trip: write_file_hash on given entries, then read_file_hash *)

PathX == <<"x", ".", "m", "d">>
PathYZ == <<"y", "/", "z", ".", "m", "d">>
PathColon == <<"x", ".", "m", "d", ":", "w">>
PathLf == <<"n", "\n", "m">>
PathCr == <<"c", "\r">>
PathPool == {PathX, PathYZ, PathColon, PathLf, PathCr}
HashPool == {<<"h", "1">>, <<"h", "2">>}

Entries == [path : PathPool, hash : HashPool]

DistinctPaths(paths) ==
    \A i, j \in DOMAIN paths : paths[i].path = paths[j].path => i = j

EntrySeqs ==
    {s \in UNION {[1..n -> Entries] : n \in 0..MaxEntries} : DistinctPaths(s)}

OldLedger == <<[path |-> PathX, hash |-> <<"h", "2">>]>>

\* A lookup of the hash file that write_file_hash has written.
RtLookup(p) ==
    /\ pc = "built"
    /\ lookup' = [done |-> TRUE, path |-> p, res |-> ReadFileHash(out, SHA_FILE, p)]
    /\ UNCHANGED <<input_paths, output_paths, pc, idx, err, rootExists, src,
                   outDirExists, out, runs, edits, rendered, written, ledgerLog,
                   outOf, failedAt, ledgerMap, start, base, endSnap, quiet, lastIndex>>

InitLedger ==
    /\ input_paths \in EntrySeqs
    /\ output_paths = <<>>
    /\ pc = "loop"
    /\ idx = Len(input_paths) + 1
    /\ err = ""
    /\ rootExists = TRUE
    /\ src = EmptyDir
    /\ outDirExists = TRUE
    /\ \E old \in {<<>>, OldLedger} :
          /\ out = IF old = <<>> THEN EmptyDir
                   ELSE Put(EmptyDir, SHA_FILE, HashFileContent(old))
          /\ ledgerMap = MapOf(old)
    /\ runs = 1
    /\ edits = 0
    /\ rendered = {}
    /\ written = {}
    /\ ledgerLog = <<>>
    /\ outOf = EmptyDir
    /\ failedAt = 0
    /\ start = [Snap EXCEPT !.built = EmptyDir]
    /\ base = NoSnap
    /\ endSnap = NoSnap
    /\ quiet = TRUE
    /\ lastIndex = NoIndexCall
    /\ lookup = NoLookup

NextLedger ==
    \/ WfhRemove
    \/ WfhCreate
    \/ WfhWrite
    \/ \E p \in PathPool : RtLookup(p)

SpecLedger == InitLedger /\ [][NextLedger]_vars

----------------------------------------------------------------------------
(* Vocabulary of the properties *)

\* A run (read_from_directory, then read_content_from_current_paths) has returned.
Ended == runs >= 1 /\ pc \in {"built", "done", "failed"}

\* Nothing changed between the end of the previous run and the start of this one,
\* nor during either of them.
Undisturbed == base.valid /\ base.quiet /\ endSnap.quiet

SameTrees(a, b) ==
    a.root = b.root /\ a.src = b.src /\ a.dirEx = b.dirEx /\ a.out = b.out

IsText(tree, d) == d \in DOMAIN tree /\ tree[d] \in Texts

\* The paths this run discovered.
Discovered == {input_paths[i].path : i \in DOMAIN input_paths}

\* The <hash>:<path> fields of the lines of a hash file, <<>> when there is none.
LedgerLines(dir) ==
    IF SHA_FILE \in DOMAIN dir
    THEN [i \in DOMAIN Lines(dir[SHA_FILE]) |-> Split(Lines(dir[SHA_FILE])[i], ":")]
    ELSE <<>>

\* <rel>.html for the document Root/<rel>.md: the root is stripped as a leading
\* path prefix and only the final extension is replaced.
ExpectedOutput(d) ==
    SubSeq(d, Len(Root) + 2, Len(d) - Len(MdExt)) \o HtmlExt

\* The base name of a path, by its components.
BaseName(p) == Split(p, MAIN_SEPARATOR)[Len(Split(p, MAIN_SEPARATOR))]

HasChar(s, c) == \E i \in DOMAIN s : s[i] = c

\* The entries the line format <hash>:<path>\n can hold.
WellFormed(paths) ==
    \A i \in DOMAIN paths :
        /\ ~HasChar(paths[i].path, ":")
        /\ ~HasChar(paths[i].path, "\n")
        /\ ~EndsWith(paths[i].path, <<"\r">>)
        /\ ~HasChar(paths[i].hash, ":")
        /\ ~HasChar(paths[i].hash, "\n")

\* What a lookup of the written entries is to return.
LookupAgrees ==
    IF \E i \in DOMAIN input_paths : input_paths[i].path = lookup.path
    THEN \E i \in DOMAIN input_paths :
            /\ input_paths[i].path = lookup.path
            /\ lookup.res = [tag |-> "Some", val |-> input_paths[i].hash]
    ELSE lookup.res.tag = "None"

----------------------------------------------------------------------------
(* The properties *)

\* C1: a run on trees that the previous run left and that nothing has changed
\* since renders no document, writes no output file and leaves the output
\* directory, the ledger included, as it was.
Idempotence ==
    (Ended /\ Undisturbed /\ SameTrees(base, start))
        => (rendered = {} /\ written = {} /\ endSnap.built = start.out)

\* C1, for a previous run that succeeded: then the property holds.
IdempotenceAfterSuccess ==
    (Ended /\ Undisturbed /\ base.ok /\ SameTrees(base, start))
        => (endSnap.ok /\ rendered = {} /\ written = {} /\ endSnap.built = start.out)

\* C2: after a successful run, when the text of exactly one document has changed
\* and nothing else, the next run renders exactly that document, writes only its
\* output file, and the new ledger differs from the old one in that document's
\* line only.
OnlyChanged(d) ==
    /\ IsText(base.src, d) /\ IsText(start.src, d)
    /\ base.src[d] # start.src[d]
    /\ DOMAIN base.src = DOMAIN start.src
    /\ \A e \in DOMAIN base.src : e # d => base.src[e] = start.src[e]
    /\ base.root = start.root /\ base.dirEx = start.dirEx /\ base.out = start.out

StalenessAcrossRuns ==
    \A d \in Docs :
        (Ended /\ Undisturbed /\ base.ok /\ OnlyChanged(d))
            => /\ endSnap.ok
               /\ rendered = {d}
               /\ written = {outOf[d]}
               /\ DOMAIN endSnap.built = DOMAIN start.out \cup {outOf[d]}
               /\ \A p \in DOMAIN start.out :
                      p \notin {outOf[d], SHA_FILE} => endSnap.built[p] = start.out[p]
               /\ Len(LedgerLines(endSnap.built)) = Len(LedgerLines(start.out))
               /\ \A i \in DOMAIN LedgerLines(start.out) :
                      IF LedgerLines(start.out)[i][2] = d
                      THEN LedgerLines(endSnap.built)[i] # LedgerLines(start.out)[i]
                           /\ LedgerLines(endSnap.built)[i][2] = d
                      ELSE LedgerLines(endSnap.built)[i] = LedgerLines(start.out)[i]

StalenessAcrossRunsWitness ==
    \E d \in Docs :
        /\ Ended /\ Undisturbed /\ base.ok /\ OnlyChanged(d)
        /\ Cardinality(DOMAIN start.src) >= 2
        /\ rendered = {d}

PartialFailureIsolation ==
    (Ended /\ failedAt # 0)
        => \A i \in DOMAIN input_paths :
              (i # failedAt /\ IsText(endSnap.src, input_paths[i].path))
                  => /\ input_paths[i].path \in DOMAIN outOf
                     /\ outOf[input_paths[i].path] \in DOMAIN endSnap.built

\* C5: every run whose discovery succeeded writes the ledger exactly once, and
\* the program does nothing to the ledger file while documents are still being
\* processed.
LedgerWrittenOnce ==
    /\ (pc = "loop" /\ idx <= Len(input_paths)) => ledgerLog = <<>>
    /\ (Ended /\ err # "NotADirectory")
          => Cardinality({i \in DOMAIN ledgerLog : ledgerLog[i] = "write"}) = 1

\* C6: after a successful run the ledger holds exactly one line per discovered
\* document, no path twice, and no line for a path that was not discovered.
LedgerReplacement ==
    pc \in {"built", "done"}
        => LET lines == LedgerLines(endSnap.built)
           IN  /\ SHA_FILE \in DOMAIN endSnap.built
               /\ Discovered = DOMAIN start.src
               /\ Len(lines) = Cardinality(Discovered)
               /\ \A i \in DOMAIN lines : Len(lines[i]) = 2 /\ lines[i][2] \in Discovered
               /\ \A i, j \in DOMAIN lines : lines[i][2] = lines[j][2] => i = j

LedgerReplacementWitness ==
    /\ pc = "built"
    /\ Len(input_paths) >= 1
    /\ \E i \in DOMAIN LedgerLines(start.out) :
          LedgerLines(start.out)[i][2] \notin Discovered

\* C7: the output path derived for the document Root/<rel>.md is <rel>.html.
PathMapping ==
    \A d \in DOMAIN outOf : outOf[d] = ExpectedOutput(d)

\* C8 as claimed: for any entries with distinct paths, a lookup of the written
\* ledger returns the hash written for the path, and None for a path not written.
RoundTripAnyEntries == lookup.done => LookupAgrees

\* C8 as amended: the same, for entries whose paths and hashes hold no colon and
\* no line break.
RoundTrip == (lookup.done /\ WellFormed(input_paths)) => LookupAgrees

RoundTripWitness ==
    /\ lookup.done
    /\ WellFormed(input_paths)
    /\ Len(input_paths) = 2
    /\ lookup.res.tag = "Some"
    /\ lookup.path = input_paths[2].path
    /\ SHA_FILE \in DOMAIN start.out

\* C9: create_index_tree leaves the output directory as it is when index.html
\* exists; otherwise it adds index.html alone, holding the template and then one
\* list item per collected output path, linking to the path under its base name.
IndexFallback ==
    lastIndex.valid =>
        IF lastIndex.existed
        THEN lastIndex.after = lastIndex.before
        ELSE /\ DOMAIN lastIndex.after = DOMAIN lastIndex.before \cup {INDEX_HTML}
             /\ \A p \in DOMAIN lastIndex.before :
                    lastIndex.after[p] = lastIndex.before[p]
             /\ lastIndex.after[INDEX_HTML] =
                    <<"index.template.html">> \o
                    Concat([i \in DOMAIN lastIndex.paths |->
                              <<"<li><a href=\"">> \o lastIndex.paths[i] \o <<"\">">>
                              \o BaseName(lastIndex.paths[i]) \o <<"</a></li>\n">>])

IndexFallbackWitness ==
    /\ lastIndex.valid
    /\ ~lastIndex.existed
    /\ Len(lastIndex.paths) = 2
    /\ \E i \in DOMAIN lastIndex.paths : HasChar(lastIndex.paths[i], MAIN_SEPARATOR)

\* C10: when discovery under an existing root finds no document, the build fails
\* and neither creates the output directory, nor writes a ledger, nor generates
\* an index.
EmptyInputIsFatal ==
    (runs >= 1 /\ pc \notin {"idle", "scanned"} /\ start.root /\ Glob(start.src) = <<>>)
        => /\ pc = "failed"
           /\ outDirExists = start.dirEx
           /\ ledgerLog = <<>>
           /\ INDEX_HTML \notin DOMAIN out

\* C11: read_from_directory fails with NotADirectory exactly when the root is not
\* a directory, and then input_paths is empty whatever it held before; when it
\* succeeds, input_paths holds exactly the .md files under the root, each once,
\* and nothing from an earlier call.
ScannerRootCheck ==
    (runs >= 1 /\ pc # "idle") =>
        IF start.root
        THEN /\ err # "NotADirectory"
             /\ [i \in DOMAIN input_paths |-> input_paths[i].path] = Glob(start.src)
             /\ Discovered = DOMAIN start.src
             /\ \A d \in Discovered : EndsWith(d, MdExt)
        ELSE /\ pc = "failed"
             /\ err = "NotADirectory"
             /\ input_paths = <<>>

ScannerRootCheckWitness ==
    /\ pc = "failed"
    /\ err = "NotADirectory"
    /\ base.ok
    /\ DOMAIN base.src # {}
    /\ output_paths # <<>>
    /\ input_paths = <<>>

\* C12: a hash file that cannot be opened is not an error.  While there is none,
\* check_hash_currency answers Err with the computed hash for every readable
\* document; a run that started without one renders every document it
\* processes and never fails on the ledger; and when its documents can be read
\* it returns Ok, has rendered every discovered document, and leaves a ledger
\* holding one line <hash>:<path> per discovered document.
MissingLedgerIsNoError ==
    /\ SHA_FILE \notin DOMAIN out =>
          \A d \in Docs :
              IsText(src, d) =>
                  CheckHashCurrency(out, src, SHA_FILE, d) =
                      [tag |-> "Err", val |-> HashStr(Sha1(src[d]))]
    /\ (runs >= 1 /\ start.root /\ SHA_FILE \notin DOMAIN start.out) =>
          /\ err # "panic"
          /\ pc \in {"loop", "wfh_create", "wfh_write", "built", "failed"} =>
                 rendered = DOMAIN outOf
          /\ (Ended /\ quiet /\ \A d \in DOMAIN start.src : IsText(start.src, d)) =>
                 /\ endSnap.ok
                 /\ rendered = DOMAIN start.src
                 /\ Discovered = DOMAIN start.src
                 /\ LedgerLines(endSnap.built) =
                        [i \in DOMAIN input_paths |->
                            <<HashStr(Sha1(start.src[input_paths[i].path])),
                              input_paths[i].path>>]

MissingLedgerIsNoErrorWitness ==
    /\ pc = "built"
    /\ quiet
    /\ base.ok
    /\ start.dirEx
    /\ SHA_FILE \in DOMAIN base.out
    /\ SHA_FILE \notin DOMAIN start.out
    /\ Cardinality(DOMAIN start.src) >= 2
    /\ rendered = DOMAIN start.src
    /\ Len(LedgerLines(out)) = Cardinality(DOMAIN start.src)

\* C13: within one run, two distinct discovered documents never get the same
\* output path, and no output file is written for more than one document.
DisjointOutputTargets ==
    \A d1, d2 \in DOMAIN outOf : outOf[d1] = outOf[d2] => d1 = d2

\* C14: in every intermediate state of write_file_hash the hash file on disk is
\* either the complete one the run found or the complete new one: where the run
\* found one it is never missing, and it is never empty or partly written.
AtomicLedgerReplacement ==
    (quiet /\ pc \in {"wfh_create", "wfh_write"}) =>
        IF SHA_FILE \in DOMAIN start.out
        THEN /\ SHA_FILE \in DOMAIN out
             /\ out[SHA_FILE] \in {start.out[SHA_FILE], HashFileContent(input_paths)}
        ELSE SHA_FILE \in DOMAIN out => out[SHA_FILE] = HashFileContent(input_paths)

\* C15: a document that took the stale branch has its hash assigned only after
\* its rendering has been written: whenever its hash is set, its output file has
\* been written in this run and holds the rendering of the hashed content.
HashAssignedAfterWrite ==
    \A i \in DOMAIN input_paths :
        (input_paths[i].path \in rendered /\ input_paths[i].hash # <<>>) =>
            /\ input_paths[i].path \in DOMAIN outOf
            /\ outOf[input_paths[i].path] \in written

\* C16: after a successful run, when the output file of a document has been
\* deleted and nothing else has changed, the next run succeeds, renders nothing
\* and writes no output file, so the file stays deleted; the document's output
\* path is among the paths this run collected and the ledger keeps every line.
OutputDeleted(d) ==
    LET p == OutputStr(Cwd \o d, Cwd \o Root)
    IN  /\ d \in DOMAIN start.src
        /\ p \in DOMAIN base.out
        /\ start.out = Remove(base.out, p)
        /\ base.root = start.root /\ base.src = start.src /\ base.dirEx = start.dirEx

FreshnessIgnoresOutput ==
    \A d \in Docs :
        (Ended /\ Undisturbed /\ base.ok /\ OutputDeleted(d)) =>
            LET p == OutputStr(Cwd \o d, Cwd \o Root)
                pushed == SubSeq(output_paths, Len(output_paths) - Len(input_paths) + 1,
                                 Len(output_paths))
            IN  /\ endSnap.ok
                /\ rendered = {}
                /\ written = {}
                /\ p \notin DOMAIN endSnap.built
                /\ Len(pushed) = Len(input_paths)
                /\ \E i \in DOMAIN pushed : pushed[i] = p /\ input_paths[i].path = d
                /\ LedgerLines(endSnap.built) = LedgerLines(base.out)
                /\ \E i \in DOMAIN LedgerLines(endSnap.built) :
                      LedgerLines(endSnap.built)[i] = <<HashStr(Sha1(start.src[d])), d>>

FreshnessIgnoresOutputWitness ==
    /\ pc = "built"
    /\ Undisturbed
    /\ base.ok
    /\ \E d \in Docs :
          /\ OutputDeleted(d)
          /\ OutputStr(Cwd \o d, Cwd \o Root) \notin DOMAIN out
          /\ \E i \in DOMAIN output_paths :
                output_paths[i] = OutputStr(Cwd \o d, Cwd \o Root)
    /\ Cardinality(DOMAIN start.src) >= 2

\* C17: the hash string of a processed document has two hexadecimal characters
\* per byte of the digest, and no other digest renders to the same string.
DigestPool == [{1, 2} -> {5, 10, 15, 171, 175, 255}]

FixedWidthHashRendering ==
    (quiet /\ pc \in {"loop", "render"}) =>
        \A i \in DOMAIN input_paths :
            input_paths[i].hash # <<>> =>
                LET digest == Sha1(src[input_paths[i].path])
                IN  /\ input_paths[i].hash = HashStr(digest)
                    /\ Len(input_paths[i].hash) = 2 * Len(digest)
                    /\ \A other \in DigestPool :
                           HashStr(other) = input_paths[i].hash => other = digest

\* C18: when the processing of a document fails, the call returns the error and
\* the program has done nothing to the hash file: unless something else changed
\* it, the file is as it was when the run started (absent when it was absent),
\* and so is every output file that this run did not write.
FailedRunLeavesLedger ==
    (pc = "failed" /\ failedAt # 0) =>
        /\ err \notin {"", "ok"}
        /\ ledgerLog = <<>>
        /\ endSnap.quiet =>
              /\ SHA_FILE \in DOMAIN endSnap.built <=> SHA_FILE \in DOMAIN start.out
              /\ DOMAIN endSnap.built = DOMAIN start.out \cup written
              /\ \A p \in DOMAIN start.out :
                     p \notin written => endSnap.built[p] = start.out[p]

FailedRunLeavesLedgerWitness ==
    /\ pc = "failed"
    /\ failedAt >= 2
    /\ endSnap.quiet
    /\ SHA_FILE \in DOMAIN start.out
    /\ Len(LedgerLines(start.out)) >= 2
    /\ out[SHA_FILE] = start.out[SHA_FILE]

\* C19: after every successful read_content_from_current_paths, output_paths
\* holds exactly one entry per document of input_paths, in the same order: the
\* output path derived for that document in this call, and nothing else.
OutputPathsMatchInputs ==
    pc \in {"built", "done"} =>
        /\ Len(output_paths) = Len(input_paths)
        /\ \A i \in DOMAIN input_paths :
               /\ i \in DOMAIN output_paths
               /\ output_paths[i] = outOf[input_paths[i].path]

====
